---- MODULE Spec2Model ----
(***************************************************************************)
(* Incremental CRM loader: validation engine (utils/db.py, models/*.py),   *)
(* lookup resolver, novelty detector and per-entity batch loader           *)
(* (etl/pipeline.py).                                                      *)
(*                                                                         *)
(* Values.  A Python value is a record tagged by k:                        *)
(*   None                      [k |-> "None"]                              *)
(*   str                       [k |-> "str", base, pad, cs]                *)
(*       base: the text with case and surrounding blanks removed,          *)
(*       pad: has leading/trailing whitespace, cs: its letter case         *)
(*   str parseable as a date   [k |-> "datestr", t, tz]                    *)
(*   pandas.Timestamp          [k |-> "Timestamp", t, tz]                  *)
(*   datetime                  [k |-> "datetime", t, tz]                   *)
(*   str holding a size        [k |-> "sizestr", toks]: its tokens, each a *)
(*       run of digits, "+", "-" or a word                                 *)
(*   int / float / bool        [k |-> "int", n] [k |-> "float", n, frac]   *)
(*                             [k |-> "bool", b]                           *)
(* Times t are integers (instants); tz = "" is a naive value.              *)
(***************************************************************************)
EXTENDS Integers, Sequences, FiniteSets, TLC

None == [k |-> "None"]
Str(b, p, c) == [k |-> "str", base |-> b, pad |-> p, cs |-> c]
DateStr(t, z) == [k |-> "datestr", t |-> t, tz |-> z]
Timestamp(t, z) == [k |-> "Timestamp", t |-> t, tz |-> z]
DateTime(t, z) == [k |-> "datetime", t |-> t, tz |-> z]
IntV(n) == [k |-> "int", n |-> n]
FloatV(n, f) == [k |-> "float", n |-> n, frac |-> f]
BoolV(b) == [k |-> "bool", b |-> b]

SizeStr(toks) == [k |-> "sizestr", toks |-> toks]

(* Every Python str of the model has .strip(); other values raise on it. *)
IsStr(v) == v.k \in {"str", "datestr", "sizestr"}

(***************************************************************************)
(* str methods used by the validators.                                     *)
(***************************************************************************)
strip(s) == IF s.k = "str" THEN [s EXCEPT !.pad = FALSE] ELSE s
upper(s) == IF s.k = "str" THEN [s EXCEPT !.cs = "upper"] ELSE s
lower(s) == IF s.k = "str" THEN [s EXCEPT !.cs = "lower"] ELSE s
title(s) == IF s.k = "str" THEN [s EXCEPT !.cs = "title"] ELSE s

(* A normalisation that trims and leaves the case as it is. *)
clean_text_keepcase(text) == IF text # None THEN strip(text) ELSE None

(* utils/etl.py clean_text: None stays None, else strip then upper. *)
clean_text(text) == IF text # None THEN upper(strip(text)) ELSE None

(***************************************************************************)
(* utils/etl.py standardize_datetime.  Result [ok, v]: ok = FALSE when the  *)
(* call raises (dateutil cannot parse the argument).                       *)
(***************************************************************************)
standardize_datetime(datetime_str) ==
    IF datetime_str.k = "Timestamp"
    THEN [ok |-> TRUE,
          v |-> IF datetime_str.tz = "" THEN [datetime_str EXCEPT !.tz = "UTC"]
                ELSE datetime_str]
    ELSE IF datetime_str.k = "datestr"
    THEN [ok |-> TRUE,
          v |-> DateTime(datetime_str.t,
                         IF datetime_str.tz = "" THEN "UTC" ELSE datetime_str.tz)]
    ELSE [ok |-> FALSE, v |-> datetime_str]

(***************************************************************************)
(* Third-party predicates (validators, country_converter, phonenumbers):   *)
(* their verdict on the representative strings of the model.               *)
(***************************************************************************)
validators_domain(s) == s.k = "str" /\ s.base \in {"a.com", "b.com"}
validators_email(s) == s.k = "str" /\ s.base \in {"x@a.com", "y@a.com"}
cc_convert(s) == IF s.k = "str" /\ s.base \in {"us", "usa"} THEN Str("us", FALSE, "upper")
                 ELSE IntV(404)
phonenumbers_parse(s) == s.k = "str" /\ s.base \in {"+15551234567"}

(* utils/etl.py normalize_phone_number: never raises. *)
normalize_phone_number(phone_number) ==
    IF phonenumbers_parse(phone_number)
    THEN <<[phone_number EXCEPT !.cs = "international"], TRUE>>
    ELSE <<phone_number, FALSE>>

(***************************************************************************)
(* int() of a digit run.                                                   *)
(***************************************************************************)
IsDigits(tok) == tok \in {"50", "100", "1000"}
IntOf(tok) == CASE tok = "50" -> 50 [] tok = "100" -> 100 [] OTHER -> 1000

RECURSIVE SplitAt(_, _, _)
(* str.split(sep) on a token sequence: the sequence of parts. *)
SplitAt(toks, sep, cur) ==
    IF toks = <<>> THEN <<cur>>
    ELSE IF Head(toks) = sep THEN <<cur>> \o SplitAt(Tail(toks), sep, <<>>)
    ELSE SplitAt(Tail(toks), sep, Append(cur, Head(toks)))

(* int(part) succeeds on a single digit run. *)
IntParses(part) == Len(part) = 1 /\ IsDigits(part[1])

(***************************************************************************)
(* Validator outcomes: a returned value, a ValueError with its message, or *)
(* any other exception.                                                    *)
(***************************************************************************)
Err(key, text, v) == [col |-> key, text |-> text, val |-> v]
Ok(v) == [st |-> "ok", v |-> v]
ValueError(key, text, v) == [st |-> "ValueError", err |-> Err(key, text, v)]
Raises(exc) == [st |-> "raise", exc |-> exc]

(* The text validators: <value>.strip().<case>() raises AttributeError on   *)
(* a value that is no str.                                                 *)
validate_upper(key, v) == IF IsStr(v) THEN Ok(upper(strip(v))) ELSE Raises("AttributeError")
validate_lower(key, v) == IF IsStr(v) THEN Ok(lower(strip(v))) ELSE Raises("AttributeError")
validate_title(key, v) == IF IsStr(v) THEN Ok(title(strip(v))) ELSE Raises("AttributeError")
validate_strip(key, v) == IF IsStr(v) THEN Ok(strip(v)) ELSE Raises("AttributeError")

(* models/company.py Company.validate_domain *)
validate_domain(key, domain) ==
    IF ~IsStr(domain) THEN Raises("AttributeError")
    ELSE IF ~validators_domain(strip(domain))
         THEN ValueError(key, "is invalid.", strip(domain))
         ELSE Ok(strip(domain))

(* models/company.py Company.validate_size *)
validate_size(key, size) ==
    IF ~IsStr(size) THEN Raises("AttributeError")
    ELSE IF size.k # "sizestr" THEN Ok(strip(size))
    ELSE LET toks == size.toks
             parts == SplitAt(toks, "-", <<>>)
             hasPlus == \E i \in 1..Len(toks) : toks[i] = "+"
             endsPlus == toks # <<>> /\ toks[Len(toks)] = "+"
         IN IF hasPlus /\ ~endsPlus THEN ValueError(key, "is invalid.", size)
            ELSE IF Len(parts) = 2 /\ ~(IntParses(parts[1]) /\ IntParses(parts[2]))
                 THEN ValueError(key, "invalid literal for int()", size)
            ELSE IF Len(parts) = 2 /\ IntOf(parts[1][1]) > IntOf(parts[2][1])
                 THEN ValueError(key, "is invalid.", size)
            ELSE IF Len(parts) > 2 THEN ValueError(key, "is invalid.", size)
            ELSE Ok(size)

(* models/company.py Company.validate_country *)
validate_country(key, country) ==
    IF ~IsStr(country) THEN Raises("AttributeError")
    ELSE LET c == cc_convert(upper(strip(country)))
         IN IF c = IntV(404) THEN ValueError(key, "is invalid.", c) ELSE Ok(c)

(* Company.validate_created_date, Contact.validate_created_date and        *)
(* Opportunity.validate_created_date: parse, then reject a future value.   *)
(* wording: the two messages of the entity's validator.                    *)
(* The same validator without the comparison with the clock. *)
validate_created_date_unclocked(key, created_date, now, wording) ==
    LET r == standardize_datetime(created_date)
    IN IF ~r.ok THEN ValueError(key, wording[1], created_date)
       ELSE Ok(r.v)

validate_created_date(key, created_date, now, wording) ==
    LET r == standardize_datetime(created_date)
    IN IF ~r.ok THEN ValueError(key, wording[1], created_date)
       ELSE IF r.v.t > now THEN ValueError(key, wording[2], r.v)
       ELSE Ok(r.v)

(* Opportunity.validate_close_date and Activity.validate_timestamp: parse  *)
(* only.                                                                   *)
validate_parse_only(key, d, wording) ==
    LET r == standardize_datetime(d)
    IN IF ~r.ok THEN ValueError(key, wording, d)
       ELSE Ok(r.v)

(* The order comparison last_modified < self.created_date is defined only  *)
(* between two timezone-aware datetimes.                                   *)
Comparable(a, b) == a.k \in {"datetime", "Timestamp"} /\ b.k \in {"datetime", "Timestamp"}
                    /\ a.tz # "" /\ b.tz # ""

(* models/contact.py Contact.validate_last_modified *)
validate_last_modified(key, last_modified, self, now) ==
    LET r == standardize_datetime(last_modified)
    IN IF ~r.ok THEN ValueError(key, "is invalid. Please use ISO 8601 format.", last_modified)
       ELSE IF r.v.t > now THEN ValueError(key, "cannot be in the future", r.v)
       ELSE IF ~Comparable(r.v, self.created_date) THEN Raises("TypeError")
       ELSE IF r.v.t < self.created_date.t
            THEN ValueError(key, "cannot be before created_date.", None)
       ELSE Ok(r.v)

(* models/contact.py Contact.validate_email; emails: the emails of the      *)
(* contacts the store holds (read through a session of its own).           *)
validate_email(key, email, emails) ==
    IF ~IsStr(email) THEN Raises("AttributeError")
    ELSE IF ~validators_email(strip(email))
         THEN ValueError(key, "is not a valid email address.", strip(email))
    ELSE IF strip(email) \in emails
         THEN ValueError(key, "A contact already exists with email", strip(email))
    ELSE Ok(strip(email))

(* models/contact.py Contact.validate_phone *)
validate_phone(key, phone) ==
    IF ~IsStr(phone) THEN Raises("AttributeError")
    ELSE LET n == normalize_phone_number(strip(phone))
         IN IF ~n[2] THEN ValueError(key, "is not a valid.", n[1]) ELSE Ok(n[1])

(* models/opportunity.py Opportunity.validate_probability *)
validate_probability(key, probability) ==
    CASE probability.k = "int" ->
            IF 0 <= probability.n /\ probability.n <= 100 THEN Ok(probability)
            ELSE ValueError(key, "must be between 0 and 100.", probability)
      [] probability.k = "float" ->
            IF 0 <= probability.n /\ probability.n <= 100 THEN Ok(IntV(probability.n))
            ELSE ValueError(key, "must be between 0 and 100.", IntV(probability.n))
      [] probability.k = "None" -> Raises("TypeError")
      [] probability.k = "str" /\ IsDigits(probability.base) ->
            IF IntOf(probability.base) <= 100 THEN Ok(IntV(IntOf(probability.base)))
            ELSE ValueError(key, "must be between 0 and 100.",
                            IntV(IntOf(probability.base)))
      [] OTHER -> ValueError(key, "must be a valid integer.", probability)

(* models/opportunity.py Opportunity.validate_amount *)
validate_amount(key, amount) ==
    CASE amount.k \in {"int", "float"} ->
            IF amount.n < 0 THEN ValueError(key, "cannot be negative.", amount)
            ELSE Ok(FloatV(amount.n, IF amount.k = "float" THEN amount.frac ELSE FALSE))
      [] amount.k = "None" -> Raises("TypeError")
      [] OTHER -> ValueError(key, "must be a valid numeric value.", amount)

(* models/activity.py Activity.validate_duration_minutes *)
validate_duration_minutes(key, duration) ==
    IF duration.k # "int" \/ duration.n < 0
    THEN ValueError(key, "Duration must be a non-negative integer.", None)
    ELSE Ok(duration)

(***************************************************************************)
(* The tables: columns in declaration order, nullability, validators.      *)
(***************************************************************************)
EntityTypes == {"Company", "Contact", "Opportunity", "Activity"}

columns(E) ==
    CASE E = "Company" ->
            <<"id", "industry_id", "name", "domain", "size", "country",
              "created_date", "is_customer", "annual_revenue">>
      [] E = "Contact" ->
            <<"id", "status_id", "company_id", "email", "first_name", "last_name",
              "title", "phone", "created_date", "last_modified">>
      [] E = "Opportunity" ->
            <<"id", "name", "contact_id", "company_id", "stage_id",
              "forecast_category_id", "product_id", "amount", "probability",
              "created_date", "close_date", "is_closed">>
      [] OTHER ->
            <<"contact_id", "opportunity_id", "id", "type", "subject", "timestamp",
              "duration_minutes", "outcome", "notes">>

Range(f) == {f[i] : i \in DOMAIN f}

nullable(E, c) ==
    \/ E = "Contact" /\ c = "phone"
    \/ E = "Activity" /\ c \in {"opportunity_id", "notes"}

(* hasattr(self, "validate_<column>") *)
has_validator(E, c) ==
    CASE E = "Company" -> c \in {"name", "domain", "size", "country", "created_date"}
      [] E = "Contact" -> c \in {"email", "first_name", "last_name", "title", "phone",
                                 "created_date", "last_modified"}
      [] E = "Opportunity" -> c \in {"name", "probability", "amount", "created_date",
                                     "close_date"}
      [] OTHER -> c \in {"type", "outcome", "subject", "timestamp", "duration_minutes"}

(* getattr(self, "validate_<column>")(column, value); ctx = [now, emails]. *)
validator(E, c, value, self, ctx) ==
    CASE E = "Company" /\ c = "name" -> validate_upper(c, value)
      [] E = "Company" /\ c = "domain" -> validate_domain(c, value)
      [] E = "Company" /\ c = "size" -> validate_size(c, value)
      [] E = "Company" /\ c = "country" -> validate_country(c, value)
      [] E = "Contact" /\ c = "email" -> validate_email(c, value, ctx.emails)
      [] E = "Contact" /\ c \in {"first_name", "last_name"} -> validate_title(c, value)
      [] E = "Contact" /\ c = "title" -> validate_strip(c, value)
      [] E = "Contact" /\ c = "phone" -> validate_phone(c, value)
      [] E = "Contact" /\ c = "last_modified" ->
            validate_last_modified(c, value, self, ctx.now)
      [] E = "Opportunity" /\ c = "name" -> validate_title(c, value)
      [] E = "Opportunity" /\ c = "probability" -> validate_probability(c, value)
      [] E = "Opportunity" /\ c = "amount" -> validate_amount(c, value)
      [] E = "Opportunity" /\ c = "close_date" ->
            validate_parse_only(c, value, "is invalid. Please use ISO 8601 format.")
      [] E = "Activity" /\ c \in {"type", "outcome"} -> validate_upper(c, value)
      [] E = "Activity" /\ c = "subject" -> validate_lower(c, value)
      [] E = "Activity" /\ c = "timestamp" ->
            validate_parse_only(c, value, "is invalid. Please consider ISO 8601 format.")
      [] E = "Activity" /\ c = "duration_minutes" -> validate_duration_minutes(c, value)
      [] E = "Company" /\ c = "created_date" ->
            validate_created_date(c, value, ctx.now,
                <<"is invalid. Please consider ISO 8601 format.", "cannot be in future:">>)
      [] E = "Contact" /\ c = "created_date" ->
            validate_created_date(c, value, ctx.now,
                <<"is invalid. Please use ISO 8601 format.", "cannot be in the future">>)
      [] OTHER ->
            validate_created_date(c, value, ctx.now,
                <<"is invalid. Please use ISO 8601 format.",
                  "Created date cannot be in the future:">>)

(***************************************************************************)
(* utils/db.py BaseModel.__init__: unknown keyword arguments are reported  *)
(* and dropped; an absent column is None.                                  *)
(***************************************************************************)
(* A constructor that drops the unknown keyword arguments without a word. *)
BaseModel_init_silent(E, kwargs) ==
    [self |-> [c \in Range(columns(E)) |->
                  IF c \in DOMAIN kwargs THEN kwargs[c] ELSE None],
     validation_errors |-> <<>>,
     checked |-> <<>>,
     invoked |-> <<>>,
     raised |-> ""]

BaseModel_init(E, kwargs) ==
    LET unknown_columns == DOMAIN kwargs \ Range(columns(E))
    IN [self |-> [c \in Range(columns(E)) |->
                     IF c \in DOMAIN kwargs THEN kwargs[c] ELSE None],
        validation_errors |->
            IF unknown_columns # {}
            THEN <<Err("", "Unknown columns", unknown_columns)>> ELSE <<>>,
        checked |-> <<>>,
        invoked |-> <<>>,
        raised |-> ""]

(***************************************************************************)
(* utils/db.py BaseModel.validate, one column: the null check, then the    *)
(* column's validator; a ValueError is recorded, any other exception       *)
(* leaves validate().  checked: the columns looked at, invoked: the         *)
(* columns whose validator was called.                                     *)
(***************************************************************************)
(* One call of a validator, r its outcome: setattr on a return, an entry   *)
(* in validation_errors on a ValueError, else the exception goes on.       *)
validator_called(c, called, r) ==
    CASE r.st = "ok" -> [called EXCEPT !.self[c] = r.v]
      [] r.st = "ValueError" -> [called EXCEPT !.validation_errors = Append(@, r.err)]
      [] OTHER -> [called EXCEPT !.raised = r.exc]

validate_column(E, c, m, ctx) ==
    LET value == m.self[c]
        seen == [m EXCEPT !.checked = Append(@, c)]
    IN IF ~nullable(E, c) /\ value = None
       THEN [seen EXCEPT !.validation_errors = Append(@, Err(c, "cannot be null.", None))]
       ELSE IF ~has_validator(E, c) THEN seen
       ELSE validator_called(c, [seen EXCEPT !.invoked = Append(@, c)],
                             validator(E, c, value, m.self, ctx))

RECURSIVE validate_from(_, _, _, _)
validate_from(E, cols, m, ctx) ==
    IF cols = <<>> \/ m.raised # "" THEN m
    ELSE validate_from(E, Tail(cols), validate_column(E, Head(cols), m, ctx), ctx)

(* model.validate() on a fresh instance built from kwargs *)
validate(E, kwargs, ctx) == validate_from(E, columns(E), BaseModel_init(E, kwargs), ctx)

(* A verdict that tolerates a single error. *)
is_valid_but_one(m) == m.raised = "" /\ Len(m.validation_errors) <= 1

(* A verdict that looks only at whether validate() returned. *)
is_valid_returned(m) == m.raised = ""

(* the value validate() returns: not self.validation_errors *)
is_valid(m) == m.raised = "" /\ m.validation_errors = <<>>

(***************************************************************************)
(* The store.  Lookup tables hold rows [id, name]; the four entity tables   *)
(* hold the attribute records of the inserted instances.                   *)
(***************************************************************************)
LookupTables == {"industries", "contact_statuses", "stages", "forecast_categories",
                 "products"}
EntityTables == {"companies", "contacts", "opportunities", "activities"}

table_of(E) ==
    CASE E = "Company" -> "companies" [] E = "Contact" -> "contacts"
      [] E = "Opportunity" -> "opportunities" [] OTHER -> "activities"

(* The lookup columns a process_* routine resolves, in call order:         *)
(* <<input column, lookup table, foreign-key column>>.                     *)
lookups_of(E) ==
    CASE E = "Company" -> << <<"industry", "industries", "industry_id">> >>
      [] E = "Contact" -> << <<"status", "contact_statuses", "status_id">> >>
      [] E = "Opportunity" ->
            << <<"stage", "stages", "stage_id">>,
               <<"forecast_category", "forecast_categories", "forecast_category_id">>,
               <<"product", "products", "product_id">> >>
      [] OTHER -> <<>>

(* The column of a table that carries a UNIQUE constraint besides the key. *)
unique_column(E) ==
    CASE E = "Company" -> "domain" [] E = "Contact" -> "email" [] OTHER -> ""

RECURSIVE PermsOf(_)
(* Every order in which a Python set may be iterated. *)
PermsOf(S) ==
    IF S = {} THEN {<<>>}
    ELSE UNION {{<<x>> \o q : q \in PermsOf(S \ {x})} : x \in S}

MaxId(table) == IF table = {} THEN 0
                ELSE CHOOSE n \in {r.id.n : r \in table} : \A r \in table : r.id.n <= n

(* process_sub_entities inserting every name of the batch, also the names  *)
(* the table already holds.                                                *)
process_sub_entities_insert_all(table, values) ==
    LET unique_sub_entity_values == {clean_text(v) : v \in Range(values)}
        base == MaxId(table)
        added(q) == {[id |-> IntV(base + i), name |-> q[i]] : i \in 1..Len(q)}
    IN IF None \in unique_sub_entity_values
       THEN {[fault |-> "IntegrityError", table |-> table, map |-> <<>>]}
       ELSE {[fault |-> "", table |-> table \cup added(q),
              map |-> [n \in unique_sub_entity_values |->
                          (CHOOSE r \in added(q) : r.name = n).id]]
             : q \in PermsOf(unique_sub_entity_values)}

(* process_sub_entities returning the mapping of the rows it found before   *)
(* it inserted the new names.                                              *)
process_sub_entities_found_only(table, values) ==
    LET unique_sub_entity_values == {clean_text(v) : v \in Range(values)}
        existing == {r \in table : r.name \in unique_sub_entity_values}
        new_sub_entities == unique_sub_entity_values \ {r.name : r \in existing}
        base == MaxId(table)
    IN IF None \in new_sub_entities
       THEN {[fault |-> "IntegrityError", table |-> table, map |-> <<>>]}
       ELSE {[fault |-> "",
              table |-> table \cup {[id |-> IntV(base + i), name |-> q[i]] : i \in 1..Len(q)},
              map |-> [n \in {r.name : r \in existing} |->
                          (CHOOSE r \in existing : r.name = n).id]]
             : q \in PermsOf(new_sub_entities)}

(* process_sub_entities returning the ids of rows it did not commit. *)
process_sub_entities_uncommitted(table, values) ==
    LET unique_sub_entity_values == {clean_text(v) : v \in Range(values)}
        new_sub_entities == unique_sub_entity_values \ {r.name : r \in table}
        base == MaxId(table)
        all(q) == table \cup {[id |-> IntV(base + i), name |-> q[i]] : i \in 1..Len(q)}
    IN IF None \in new_sub_entities
       THEN {[fault |-> "IntegrityError", table |-> table, map |-> <<>>]}
       ELSE {[fault |-> "", table |-> table,
              map |-> [n \in unique_sub_entity_values |->
                          (CHOOSE r \in all(q) : r.name = n).id]]
             : q \in PermsOf(new_sub_entities)}

(***************************************************************************)
(* etl/pipeline.py Pipeline.process_sub_entities on the values of one      *)
(* column: the set of possible results [fault, table, map].  The new names *)
(* are inserted in the iteration order of a set, each taking the next      *)
(* autoincrement id; a None name violates NOT NULL.                        *)
(***************************************************************************)
process_sub_entities(table, values) ==
    LET unique_sub_entity_values == {clean_text(v) : v \in Range(values)}
        existing == {r \in table : r.name \in unique_sub_entity_values}
        new_sub_entities == unique_sub_entity_values \ {r.name : r \in existing}
        base == MaxId(table)
        requery(t) == {r \in t : r.name \in unique_sub_entity_values}
        mapping(t) == [n \in {r.name : r \in requery(t)} |->
                          (CHOOSE r \in requery(t) : r.name = n).id]
    IN IF None \in new_sub_entities
       THEN {[fault |-> "IntegrityError", table |-> table, map |-> <<>>]}
       ELSE {[fault |-> "",
              table |-> table \cup {[id |-> IntV(base + i), name |-> q[i]] : i \in 1..Len(q)},
              map |-> mapping(table \cup {[id |-> IntV(base + i), name |-> q[i]] : i \in 1..Len(q)})]
             : q \in PermsOf(new_sub_entities)}

RECURSIVE resolve_lookups(_, _, _, _)
(* The process_sub_entities calls of one chunk, in order, each committed   *)
(* before the next: the possible [fault, db, maps], maps by input column.  *)
resolve_lookups(specs, batch, d, maps) ==
    IF specs = <<>> THEN {[fault |-> "", db |-> d, maps |-> maps]}
    ELSE LET sp == Head(specs)
             outs == process_sub_entities(d[sp[2]], [i \in DOMAIN batch |-> batch[i][sp[1]]])
         IN {[fault |-> "OperationalError", db |-> d, maps |-> maps]} \cup
            UNION {IF o.fault # ""
                   THEN {[fault |-> o.fault, db |-> d, maps |-> maps]}
                   ELSE resolve_lookups(Tail(specs), batch,
                                        [d EXCEPT ![sp[2]] = o.table],
                                        maps @@ (sp[1] :> o.map))
                   : o \in outs}

(* A map in which the first record of an id stays. *)
entities_map_first(batch) ==
    [id \in {batch[i].id : i \in DOMAIN batch} |->
        batch[CHOOSE i \in DOMAIN batch :
                /\ batch[i].id = id
                /\ \A j \in DOMAIN batch : batch[j].id = id => i <= j]]

(* {entity["id"]: entity for entity in records}: a later record replaces an *)
(* earlier one with the same id.                                           *)
entities_map(batch) ==
    [id \in {batch[i].id : i \in DOMAIN batch} |->
        batch[CHOOSE i \in DOMAIN batch :
                /\ batch[i].id = id
                /\ \A j \in DOMAIN batch : batch[j].id = id => j <= i]]

(* Every id of the batch, persisted or not. *)
new_ids_all(batch, rows) == {batch[i].id : i \in DOMAIN batch}

(* set(ids) - set(existing ids) *)
new_ids(batch, rows) == {batch[i].id : i \in DOMAIN batch} \ {r.id : r \in rows}

(* The record with every lookup column popped and its foreign key set.     *)
substitute(E, rec, maps) ==
    LET sp == lookups_of(E)
        names == {sp[i][1] : i \in DOMAIN sp}
        fks == {sp[i][3] : i \in DOMAIN sp}
        spec_of(fk) == sp[CHOOSE i \in DOMAIN sp : sp[i][3] = fk]
    IN [c \in (DOMAIN rec \ names) \cup fks |->
           IF c \in fks THEN maps[spec_of(c)[1]][clean_text(rec[spec_of(c)[1]])]
           ELSE rec[c]]

(* The loop body dropping an invalid record without reporting it. *)
validate_one_dropping(E, data, ctx, m, acc) ==
    LET seen == [acc EXCEPT !.validated = @ \cup {[E |-> E, data |-> data, ctx |-> ctx,
                                                    m |-> m]}]
    IN IF m.raised # "" THEN [seen EXCEPT !.fault = m.raised]
       ELSE IF ~is_valid(m) THEN seen
       ELSE [seen EXCEPT !.to_create = Append(@, m.self)]

(* The loop body reporting the validated instance in place of the record. *)
validate_one_normalized(E, data, ctx, m, acc) ==
    LET seen == [acc EXCEPT !.validated = @ \cup {[E |-> E, data |-> data, ctx |-> ctx,
                                                    m |-> m]}]
    IN IF m.raised # "" THEN [seen EXCEPT !.fault = m.raised]
       ELSE IF ~is_valid(m)
            THEN [seen EXCEPT !.errors = Append(@, [record |-> m.self,
                                                   errors |-> m.validation_errors])]
       ELSE [seen EXCEPT !.to_create = Append(@, m.self)]

(* One pass of the loop body, m the validated instance of the record data. *)
validate_one(E, data, ctx, m, acc) ==
    LET seen == [acc EXCEPT !.validated = @ \cup {[E |-> E, data |-> data, ctx |-> ctx,
                                                    m |-> m]}]
    IN IF m.raised # "" THEN [seen EXCEPT !.fault = m.raised]
       ELSE IF ~is_valid(m)
            THEN [seen EXCEPT !.errors = Append(@, [record |-> data,
                                                   errors |-> m.validation_errors])]
       ELSE [seen EXCEPT !.to_create = Append(@, m.self)]

(* The instance built from the record and validated. *)
validate_record(E, data, ctx, acc) == validate_one(E, data, ctx, validate(E, data, ctx), acc)

RECURSIVE validate_all(_, _, _, _, _, _)
(* The loop over the novel ids in iteration order: stage the valid         *)
(* instances, report the invalid ones, stop where validate() raises.       *)
validate_all(E, order, emap, maps, ctx, acc) ==
    IF order = <<>> \/ acc.fault # "" THEN acc
    ELSE validate_all(E, Tail(order), emap, maps, ctx,
                      validate_record(E, substitute(E, emap[Head(order)], maps), ctx, acc))

(* An INSERT that no constraint can refuse. *)
insert_unconstrained(E, rows, to_create) == TRUE

(* bulk_save_objects: the INSERTs violate neither the primary key nor a     *)
(* UNIQUE constraint.                                                      *)
insert_ok(E, rows, to_create) ==
    LET keys == IF unique_column(E) = "" THEN {"id"} ELSE {"id", unique_column(E)}
    IN \A u \in keys :
          /\ \A i \in DOMAIN to_create : \A r \in rows : r[u] # to_create[i][u]
          /\ \A i, j \in DOMAIN to_create : i # j => to_create[i][u] # to_create[j][u]

(* The end of a chunk without the roll back: the first staged row stays    *)
(* when the INSERTs are refused.                                           *)
bulk_save_unrolled(E, d, v) ==
    IF v.fault # ""
    THEN [fault |-> v.fault, db |-> d, errors |-> v.errors, validated |-> v.validated]
    ELSE IF ~insert_ok(E, d[table_of(E)], v.to_create)
    THEN [fault |-> "IntegrityError",
          db |-> [d EXCEPT ![table_of(E)] = @ \cup {v.to_create[1]}],
          errors |-> v.errors, validated |-> v.validated]
    ELSE [fault |-> "", db |-> [d EXCEPT ![table_of(E)] = @ \cup Range(v.to_create)],
          errors |-> v.errors, validated |-> v.validated]

(* The end of a chunk, v the outcome of its validation loop, d the store    *)
(* after the lookup commits.                                               *)
bulk_save(E, d, v) ==
    IF v.fault # ""
    THEN [fault |-> v.fault, db |-> d, errors |-> v.errors, validated |-> v.validated]
    ELSE IF ~insert_ok(E, d[table_of(E)], v.to_create)
    THEN [fault |-> "IntegrityError", db |-> d, errors |-> v.errors,
          validated |-> v.validated]
    ELSE [fault |-> "", db |-> [d EXCEPT ![table_of(E)] = @ \cup Range(v.to_create)],
          errors |-> v.errors, validated |-> v.validated]

(* The end of a chunk when the store may also fail for a reason of its own *)
(* (the database locked, the disk full): the statement raises, db_session  *)
(* rolls the staged rows back and re-raises.                               *)
save_or_fail(E, d, v) ==
    IF v.fault # "" THEN {bulk_save(E, d, v)}
    ELSE {bulk_save(E, d, v),
          [fault |-> "OperationalError", db |-> d, errors |-> v.errors,
           validated |-> v.validated]}

(***************************************************************************)
(* One chunk of a process_* routine: resolve the lookups, find the novel   *)
(* ids, validate each, bulk insert, commit.  The possible results          *)
(* [fault, db, errors, validated]; on a fault the session is rolled back   *)
(* and only the lookup commits remain, while the entries already appended  *)
(* to validation_errors stay.                                              *)
(***************************************************************************)
load_chunk(E, batch, d, now) ==
    UNION {
        IF l.fault # ""
        THEN {[fault |-> l.fault, db |-> l.db, errors |-> <<>>, validated |-> {}]}
        ELSE UNION {save_or_fail(E, l.db,
                        validate_all(E, order, entities_map(batch), l.maps,
                                     [now |-> now,
                                      emails |-> {r.email : r \in l.db["contacts"]}],
                                     [fault |-> "", to_create |-> <<>>, errors |-> <<>>,
                                      validated |-> {}]))
              : order \in PermsOf(new_ids(batch, l.db[table_of(E)]))}
        : l \in resolve_lookups(lookups_of(E), batch, d, <<>>)}

(***************************************************************************)
(* Bounds of the model.                                                    *)
(***************************************************************************)
(* Pipeline.chunk_size, scaled down so that a file spans several chunks. *)
chunk_size == 2
(* Runs that the store itself makes fail. *)
MaxFaults == 1
(* Records the input files hold together. *)
MaxInput == 3
(* Invocations of Pipeline.run. *)
MaxRuns == 2
(* The clock runs from 1 to MaxNow. *)
MaxNow == 2

Soon == MaxNow
Far == MaxNow + 1

(***************************************************************************)
(* Contacts: sort_values(by="last_modified", ascending=False) compares the *)
(* raw column values: date strings in date order, any other string above   *)
(* them, null values last; rows with equal keys keep their file order (the *)
(* order the sort gives is a function of the frame alone).                 *)
(***************************************************************************)
sort_key(v) == CASE v.k = "None" -> 0 - 1
                 [] v.k \in {"datestr", "Timestamp", "datetime"} -> v.t
                 [] OTHER -> Far + 1

(* The same sort with ascending=True: the oldest record first. *)
sort_values_ascending(batch) ==
    LET key(i) == sort_key(batch[i].last_modified)
        q == CHOOSE q \in PermsOf(DOMAIN batch) :
                \A i, j \in DOMAIN batch :
                   i < j => \/ key(q[i]) < key(q[j])
                            \/ key(q[i]) = key(q[j]) /\ q[i] < q[j]
    IN [i \in DOMAIN batch |-> batch[q[i]]]

sort_values(batch) ==
    LET key(i) == sort_key(batch[i].last_modified)
        q == CHOOSE q \in PermsOf(DOMAIN batch) :
                \A i, j \in DOMAIN batch :
                   i < j => \/ key(q[i]) > key(q[j])
                            \/ key(q[i]) = key(q[j]) /\ q[i] < q[j]
    IN [i \in DOMAIN batch |-> batch[q[i]]]

(* No deduplication: every record of the frame is kept. *)
drop_duplicates_keep_all(batch, seen) == batch

RECURSIVE drop_duplicates(_, _)
(* drop_duplicates(subset="email", keep="first") *)
drop_duplicates(batch, seen) ==
    IF batch = <<>> THEN <<>>
    ELSE IF Head(batch).email \in seen THEN drop_duplicates(Tail(batch), seen)
    ELSE <<Head(batch)>> \o drop_duplicates(Tail(batch), seen \cup {Head(batch).email})

(* The i-th chunk the CSV reader yields. *)
chunk_of(file, i) ==
    SubSeq(file, (i - 1) * chunk_size + 1,
           IF i * chunk_size < Len(file) THEN i * chunk_size ELSE Len(file))

(***************************************************************************)
(* Input records, as the file readers deliver them (one dict per row).     *)
(***************************************************************************)
Id(s) == Str(s, FALSE, "lower")
Name(s) == Str(s, FALSE, "title")

company0 ==
    [id |-> Id("c1"), name |-> Str("acme", TRUE, "title"), domain |-> Str("a.com", FALSE, "lower"),
     industry |-> Name("technology"), size |-> SizeStr(<<"50", "-", "100">>),
     country |-> Name("usa"), created_date |-> DateStr(0, ""),
     is_customer |-> BoolV(TRUE), annual_revenue |-> IntV(1500000)]

CompanyPool ==
    { company0,
      (* a second company; its industry differs in case and padding only *)
      [company0 EXCEPT !.id = Id("c2"), !.domain = Str("b.com", FALSE, "lower"),
                       !.industry = Str("technology", TRUE, "lower"),
                       !.created_date = DateStr(0, "+05:00")],
      (* valid, but its domain is that of company0 *)
      [company0 EXCEPT !.id = Id("c2"), !.industry = Name("finance")],
      (* the id of company0 with other field values and an unparseable date *)
      [company0 EXCEPT !.name = Name("other"), !.industry = Name("finance"),
                       !.created_date = Name("InvalidDate")],
      (* dated in the future until the clock reaches Soon *)
      [company0 EXCEPT !.id = Id("c3"), !.domain = Str("b.com", TRUE, "lower"),
                       !.created_date = DateStr(Soon, "")] }

contact0 ==
    [id |-> Id("t1"), email |-> Str("x@a.com", FALSE, "lower"), first_name |-> Name("ann"),
     last_name |-> Name("lee"), title |-> Str("ceo", TRUE, "upper"), company_id |-> Id("c1"),
     phone |-> Str("+15551234567", FALSE, "raw"), status |-> Name("lead"),
     created_date |-> DateStr(0, ""), last_modified |-> DateStr(1, "")]

ContactPool ==
    { contact0,
      (* the email of contact0, modified earlier *)
      [contact0 EXCEPT !.id = Id("t2"), !.first_name = Name("bob"),
                       !.status = Name("customer"), !.last_modified = DateStr(0, "")],
      (* the email of contact0 with surrounding blanks *)
      [contact0 EXCEPT !.id = Id("t2"), !.email = Str("x@a.com", TRUE, "lower")],
      (* bad email and bad phone, and a company that does not exist *)
      [contact0 EXCEPT !.id = Id("t3"), !.email = Str("invalid_email", FALSE, "lower"),
                       !.phone = Str("11231231234", FALSE, "raw"),
                       !.company_id = Id("c9")],
      (* no phone *)
      [contact0 EXCEPT !.id = Id("t3"), !.email = Str("y@a.com", FALSE, "lower"),
                       !.phone = None, !.last_modified = DateStr(0, "")],
      (* modified before it was created; created in the future until Soon *)
      [contact0 EXCEPT !.id = Id("t2"), !.email = Str("y@a.com", FALSE, "lower"),
                       !.created_date = DateStr(Soon, ""),
                       !.last_modified = DateStr(1, "")],
      (* the email of contact0, modified later, with a bad phone *)
      [contact0 EXCEPT !.id = Id("t3"), !.phone = Str("11231231234", FALSE, "raw"),
                       !.last_modified = DateStr(Soon, "")] }

opportunity0 ==
    [id |-> Id("o1"), name |-> Name("basic deal"), contact_id |-> Id("t1"),
     company_id |-> Id("c1"), amount |-> IntV(25000), stage |-> Name("prospecting"),
     product |-> Name("basic"), probability |-> IntV(20), created_date |-> DateStr(0, ""),
     close_date |-> DateStr(Far, ""), is_closed |-> BoolV(FALSE),
     forecast_category |-> Name("pipeline")]

OpportunityPool ==
    { opportunity0,
      [opportunity0 EXCEPT !.id = Id("o2"), !.contact_id = Id("t9"),
                           !.stage = Str("prospecting", TRUE, "upper"),
                           !.product = Name("pro"), !.probability = IntV(0 - 20)] }

activity0 ==
    [id |-> Id("a1"), type |-> Name("call"), contact_id |-> Id("t1"),
     opportunity_id |-> Id("o1"), subject |-> Name("call with ann"),
     duration_minutes |-> IntV(30), outcome |-> Name("completed"),
     notes |-> Name("scope"), timestamp |-> Timestamp(0, "")]

ActivityPool ==
    { activity0,
      (* valid in every column, with a field that is no column; no opportunity *)
      [c \in DOMAIN activity0 \cup {"source"} |->
          CASE c = "source" -> Name("import")
            [] c = "id" -> Id("a2")
            [] c = "opportunity_id" -> None
            [] OTHER -> activity0[c]],
      (* rejected for its duration; its timestamp is the one pandas parsed; *)
      (* it carries a field that is no column as well                       *)
      [c \in DOMAIN activity0 \cup {"source"} |->
          CASE c = "source" -> Name("import")
            [] c = "id" -> Id("a3")
            [] c = "duration_minutes" -> IntV(0 - 5)
            [] OTHER -> activity0[c]] }

Pool(t) == CASE t = "companies" -> CompanyPool [] t = "contacts" -> ContactPool
             [] t = "opportunities" -> OpportunityPool [] OTHER -> ActivityPool

(***************************************************************************)
(* State.                                                                  *)
(***************************************************************************)
VARIABLES
    files,              \* the input files: table name -> sequence of records
    db,                 \* the committed store: table name -> set of rows
    validation_errors,  \* Pipeline.validation_errors (class attribute)
    pc,                 \* "idle", or the process_* routine run() is to call next
    chunk,              \* the index of the next chunk of the CSV reader
    now,                \* the clock datetime.now() reads
    started,            \* the clock when the run in progress began
    artifacts,          \* the number of error files log_errors has written
    hist,               \* one summary per finished invocation of run()
    validated           \* the validate() calls of the last chunk, with results

vars == <<files, db, validation_errors, pc, chunk, now, started, artifacts, hist, validated>>

Init ==
    /\ files = [t \in EntityTables |-> <<>>]
    /\ db = [t \in LookupTables \cup EntityTables |-> {}]
    /\ validation_errors = [t \in EntityTables |-> <<>>]
    /\ pc = "idle"
    /\ chunk = 1
    /\ now = 1
    /\ started = 0
    /\ artifacts = 0
    /\ hist = <<>>
    /\ validated = {}

InputSize == Len(files.companies) + Len(files.contacts) + Len(files.opportunities)
             + Len(files.activities)

(* The input grows between runs (tests/test_pipeline.py add_record). *)
AddRecord ==
    /\ pc = "idle"
    /\ Len(hist) < MaxRuns
    /\ InputSize < MaxInput
    /\ \E t \in EntityTables : \E rec \in Pool(t) :
          files' = [files EXCEPT ![t] = Append(@, rec)]
    /\ UNCHANGED <<db, validation_errors, pc, chunk, now, started, artifacts, hist, validated>>

(* Time passes. *)
Tick ==
    /\ now < MaxNow
    /\ now' = now + 1
    /\ UNCHANGED <<files, db, validation_errors, pc, chunk, started, artifacts, hist, validated>>

Summary(outcome, d, errs, t0) ==
    [input |-> files, outcome |-> outcome, db |-> d, errors |-> errs,
     start |-> t0, end |-> now]

(* The runs so far that a failure of the store ended. *)
StoreFaults == Cardinality({n \in DOMAIN hist : hist[n].outcome = "OperationalError"})

AnyErrors(errs) == \E t \in EntityTables : Len(errs[t]) > 0

(* json.dump(self.validation_errors, f): the encoder knows no datetime, so  *)
(* a record that still holds the Timestamp pandas parsed makes it raise     *)
(* TypeError after the file was opened.                                     *)
json_dump_ok(errs) ==
    \A t \in EntityTables : \A i \in DOMAIN errs[t] :
        \A c \in DOMAIN errs[t][i].record :
            errs[t][i].record[c].k \notin {"Timestamp", "datetime"}

(* log_errors at the end of run(): "ok", or the exception json.dump raises. *)
log_errors(errs) ==
    IF AnyErrors(errs) /\ ~json_dump_ok(errs) THEN "TypeError" ELSE "ok"

(***************************************************************************)
(* One chunk of the run.  A fault leaves run() through db_session (roll    *)
(* back, re-raise); after the last chunk of a routine run() calls the next *)
(* routine, and after process_activities it logs the errors and returns.   *)
(***************************************************************************)
Step(E, here, more, next_pc, o) ==
    LET errs == [validation_errors EXCEPT ![table_of(E)] = @ \o o.errors]
        t0 == IF pc = "idle" THEN now ELSE started
    IN /\ validation_errors' = errs
       /\ db' = o.db
       /\ validated' = o.validated
       /\ started' = t0
       /\ UNCHANGED <<files, now>>
       /\ IF o.fault # ""
          THEN /\ pc' = "idle" /\ chunk' = 1
               /\ hist' = Append(hist, Summary(o.fault, o.db, errs, t0))
               /\ UNCHANGED artifacts
          ELSE IF more
          THEN /\ pc' = here /\ chunk' = chunk + 1
               /\ UNCHANGED <<hist, artifacts>>
          ELSE IF next_pc = "idle"
          THEN /\ pc' = "idle" /\ chunk' = 1
               /\ hist' = Append(hist, Summary(log_errors(errs), o.db, errs, t0))
               /\ artifacts' = IF AnyErrors(errs) THEN artifacts + 1 ELSE artifacts
          ELSE /\ pc' = next_pc /\ chunk' = 1
               /\ UNCHANGED <<hist, artifacts>>

(* run() and process_companies: run() is entered with the first chunk. *)
ProcessCompanies ==
    /\ pc \in {"idle", "companies"}
    /\ pc = "idle" => Len(hist) < MaxRuns
    /\ \E o \in load_chunk("Company", chunk_of(files.companies, chunk), db, now) :
          /\ o.fault # "OperationalError"
          /\ Step("Company", "companies", chunk * chunk_size < Len(files.companies),
                  "contacts", o)

(* process_contacts: the whole file, sorted by recency and deduplicated. *)
ProcessContacts ==
    /\ pc = "contacts"
    /\ \E o \in load_chunk("Contact", drop_duplicates(sort_values(files.contacts), {}),
                             db, now) :
          /\ o.fault # "OperationalError"
          /\ Step("Contact", "contacts", FALSE, "opportunities", o)

ProcessOpportunities ==
    /\ pc = "opportunities"
    /\ \E o \in load_chunk("Opportunity", chunk_of(files.opportunities, chunk), db, now) :
          /\ o.fault # "OperationalError"
          /\ Step("Opportunity", "opportunities",
                  chunk * chunk_size < Len(files.opportunities), "activities", o)

(* process_activities, then the end of run(): log_errors if any. *)
ProcessActivities ==
    /\ pc = "activities"
    /\ \E o \in load_chunk("Activity", files.activities, db, now) :
          /\ o.fault # "OperationalError"
          /\ Step("Activity", "activities", FALSE, "idle", o)

Next ==
    \/ AddRecord
    \/ Tick
    \/ ProcessCompanies
    \/ ProcessContacts
    \/ ProcessOpportunities
    \/ ProcessActivities

Spec == Init /\ [][Next]_vars

(***************************************************************************)
(* The same program on a store that can fail for reasons of its own: a     *)
(* statement or a commit of the chunk in progress raises, db_session rolls *)
(* back and re-raises, and run() is left; what was committed stays.        *)
(***************************************************************************)
Routine == CASE pc \in {"idle", "companies"} -> "Company"
             [] pc = "contacts" -> "Contact"
             [] pc = "opportunities" -> "Opportunity"
             [] OTHER -> "Activity"

Batch == CASE pc \in {"idle", "companies"} -> chunk_of(files.companies, chunk)
           [] pc = "contacts" -> drop_duplicates(sort_values(files.contacts), {})
           [] pc = "opportunities" -> chunk_of(files.opportunities, chunk)
           [] OTHER -> files.activities

StoreFails ==
    /\ StoreFaults < MaxFaults
    /\ Len(hist) + 1 < MaxRuns          \* a run is left for the retry
    /\ \E o \in load_chunk(Routine, Batch, db, now) :
          /\ o.fault = "OperationalError"
          /\ Step(Routine, pc, FALSE, "idle", o)

NextFaults == Next \/ StoreFails

SpecFaults == Init /\ [][NextFaults]_vars

(***************************************************************************)
(* The validation engine on its own: validate() applied to one candidate   *)
(* of any entity type, for every combination of field values below, in     *)
(* every context (clock, emails the store holds).                          *)
(***************************************************************************)
BadDate == Name("InvalidDate")
Dates == {DateStr(0, ""), DateStr(1, "+05:00"), DateStr(Far, ""), BadDate, None}

CompanyCandidates ==
    [id : {Id("c1")}, industry_id : {IntV(1)}, name : {Str("acme", TRUE, "title"), None},
     domain : {Str("a.com", TRUE, "lower"), Name("nodomain"), None},
     size : {SizeStr(<<"50", "-", "100">>), SizeStr(<<"1000", "-", "100">>),
             SizeStr(<<"1000", "+", "100">>), SizeStr(<<"1000", "+">>),
             SizeStr(<<"1000">>), SizeStr(<<"1000", "-", "100", "-", "1000">>),
             SizeStr(<<"abc">>), SizeStr(<<"50", "-">>), None},
     country : {Name("usa"), Name("xyz")},
     created_date : Dates,
     is_customer : {BoolV(FALSE), None}, annual_revenue : {IntV(1500000)}]

ContactCandidates ==
    [id : {Id("t1")}, status_id : {IntV(1)}, company_id : {Id("c1"), None},
     email : {Str("x@a.com", TRUE, "lower"), Name("invalid_email"), None},
     first_name : {Name("ann"), None}, last_name : {Name("lee")},
     title : {Str("ceo", TRUE, "upper")},
     phone : {Str("+15551234567", FALSE, "raw"), Str("11231231234", FALSE, "raw"), None},
     created_date : Dates, last_modified : Dates]

OpportunityCandidates ==
    [id : {Id("o1")}, name : {Name("basic deal"), None}, contact_id : {Id("t1")},
     company_id : {Id("c1")}, stage_id : {IntV(1)}, forecast_category_id : {IntV(1)},
     product_id : {IntV(1)},
     amount : {IntV(25000), IntV(0 - 1), Name("much"), None},
     probability : {IntV(0), IntV(100), IntV(0 - 20), IntV(101), FloatV(12, TRUE),
                    Name("high"), Str("50", TRUE, "lower"), None},
     created_date : {DateStr(0, ""), DateStr(Far, ""), BadDate},
     close_date : {DateStr(Far, ""), BadDate, None},
     is_closed : {BoolV(FALSE)}]

ActivityCandidates ==
    [contact_id : {Id("t1"), None}, opportunity_id : {Id("o1"), None}, id : {Id("a1")},
     type : {Name("call"), None}, subject : {Name("call with ann")},
     timestamp : {Timestamp(0, ""), BadDate, None},
     duration_minutes : {IntV(30), IntV(0 - 5), FloatV(1, TRUE), None},
     outcome : {Name("completed"), None}, notes : {Name("scope"), None}]

(* Candidates that carry a field that is no column. *)
UnknownColumnCandidates(S) ==
    {[c \in DOMAIN r \cup {"source"} |-> IF c = "source" THEN Name("import") ELSE r[c]]
        : r \in S}

Candidates(E) ==
    CASE E = "Company" -> CompanyCandidates
      [] E = "Contact" -> ContactCandidates
      [] E = "Opportunity" -> OpportunityCandidates
      [] OTHER -> ActivityCandidates \cup UnknownColumnCandidates(ActivityCandidates)

ValidateCandidate ==
    /\ validated = {}
    /\ \E E \in EntityTypes : \E kwargs \in Candidates(E) :
       \E t \in 1..MaxNow : \E emails \in {{}, {Str("x@a.com", FALSE, "lower")}} :
          LET ctx == [now |-> t, emails |-> emails]
          IN validated' = {[E |-> E, data |-> kwargs, ctx |-> ctx,
                            m |-> validate(E, kwargs, ctx)]}
    /\ UNCHANGED <<files, db, validation_errors, pc, chunk, now, started, artifacts, hist>>

SpecValidate == Init /\ [][ValidateCandidate]_vars

(***************************************************************************)
(* Properties.                                                             *)
(***************************************************************************)
Finished(n) == hist[n].outcome = "ok"
SameInput(n) == hist[n].input = hist[n - 1].input

(* The columns whose validator compares the value with the clock. *)
ClockedColumns(t) ==
    CASE t = "companies" -> {"created_date"}
      [] t = "contacts" -> {"created_date", "last_modified"}
      [] t = "opportunities" -> {"created_date"}
      [] OTHER -> {}

(* Some input date lies in (t0, t1]: future at t0, not future at t1. *)
ComesDue(input, t0, t1) ==
    \E t \in EntityTables : \E i \in DOMAIN input[t] : \E c \in ClockedColumns(t) :
        LET v == input[t][i][c]
        IN v.k \in {"datestr", "Timestamp"} /\ t0 < v.t /\ v.t <= t1

(* C1, as stated: two complete runs in succession over the same input     *)
(* leave exactly the same rows in every table after the second run as      *)
(* after the first.                                                        *)
C1_SameRowsAfterSecondRun ==
    \A n \in 2..Len(hist) :
        (Finished(n - 1) /\ Finished(n) /\ SameInput(n)) => hist[n].db = hist[n - 1].db

(* C1, amended: when a run is followed by a run over the same input and    *)
(* no date of the input came due between the start of the first run and    *)
(* the end of the second, the second run ends as the first did and leaves  *)
(* exactly the same rows in every table.                                   *)
C1_SameRowsUnlessDateCameDue ==
    \A n \in 2..Len(hist) :
        (SameInput(n) /\ ~ComesDue(hist[n].input, hist[n - 1].start, hist[n].end))
        => (hist[n].outcome = hist[n - 1].outcome /\ hist[n].db = hist[n - 1].db)

RepeatedId(input) ==
    \E t \in EntityTables : \E i, j \in DOMAIN input[t] : i < j /\ input[t][i].id = input[t][j].id

(* Two runs over an input with a persisted, a rejected and a duplicate record. *)
C1_Witness ==
    /\ Len(hist) = 2 /\ Finished(1) /\ Finished(2) /\ SameInput(2)
    /\ ~ComesDue(hist[2].input, hist[1].start, hist[2].end)
    /\ RepeatedId(hist[2].input)
    /\ AnyErrors(hist[1].errors)
    /\ \E t \in EntityTables : hist[1].db[t] # {}

(* C2: a second run over the same input adds no entry to any of the four   *)
(* validation-error collections.                                           *)
C2_NoNewErrorsOnRerun ==
    \A n \in 2..Len(hist) :
        (Finished(n - 1) /\ Finished(n) /\ SameInput(n))
        => hist[n].errors = hist[n - 1].errors

Ids(rows) == {x.id : x \in rows}

(* Run n read the input of run n - 1 with the company r appended. *)
AppendedCompany(n, r) ==
    hist[n].input = [hist[n - 1].input EXCEPT !.companies = Append(@, r)]

(* The company record r, its industry resolved, as validation sees it at t. *)
CompanyAt(r, t) ==
    validate("Company",
             [c \in (DOMAIN r \ {"industry"}) \cup {"industry_id"} |->
                 IF c = "industry_id" THEN IntV(1) ELSE r[c]],
             [now |-> t, emails |-> {}])

ValidCompany(r, t) ==
    CompanyAt(r, t).raised = "" /\ CompanyAt(r, t).validation_errors = <<>>

(* C3, as stated: after a complete run that persisted N companies, a run   *)
(* over the input with one valid company of a new id appended leaves N + 1 *)
(* companies; with a record of a persisted id appended it leaves the       *)
(* companies table as it was.                                              *)
C3_AppendOneCompany ==
    \A n \in 2..Len(hist) : \A r \in CompanyPool :
        (Finished(n - 1) /\ AppendedCompany(n, r))
        => LET old == hist[n - 1].db.companies
               new == hist[n].db.companies
           IN /\ (r.id \notin Ids(old) /\ ValidCompany(r, hist[n].start))
                 => Cardinality(new) = Cardinality(old) + 1
              /\ r.id \in Ids(old) => new = old

(* C3, amended: the same, provided no date of the earlier input came due   *)
(* since the previous run started; and a valid company of a new id whose   *)
(* domain is already persisted is not added: the insert violates the       *)
(* UNIQUE constraint, the run aborts and the table is as it was.           *)
C3_AppendOneCompanyFreshDomain ==
    \A n \in 2..Len(hist) : \A r \in CompanyPool :
        (Finished(n - 1) /\ AppendedCompany(n, r)
         /\ ~ComesDue(hist[n - 1].input, hist[n - 1].start, hist[n].end))
        => LET old == hist[n - 1].db.companies
               new == hist[n].db.companies
           IN /\ (r.id \notin Ids(old) /\ ValidCompany(r, hist[n].start))
                 => IF CompanyAt(r, hist[n].start).self.domain \in {x.domain : x \in old}
                    THEN hist[n].outcome = "IntegrityError" /\ new = old
                    ELSE Cardinality(new) = Cardinality(old) + 1 /\ old \subseteq new
              /\ r.id \in Ids(old) => new = old

(* A second run that added the appended company to a non-empty table. *)
C3_Witness ==
    /\ Len(hist) = 2 /\ Finished(1)
    /\ ~ComesDue(hist[1].input, hist[1].start, hist[2].end)
    /\ \E r \in CompanyPool :
          /\ AppendedCompany(2, r)
          /\ r.id \notin Ids(hist[1].db.companies)
          /\ ValidCompany(r, hist[2].start)
          /\ hist[1].db.companies # {}
          /\ Cardinality(hist[2].db.companies) = Cardinality(hist[1].db.companies) + 1

(* The values a lookup column takes in the current input file. *)
ColumnValues(E, col) == [i \in DOMAIN files[table_of(E)] |-> files[table_of(E)][i][col]]

(* C4: every lookup table holds at most one row per normalized name, the   *)
(* names it holds are trimmed and upper-cased, raw values that differ only *)
(* in case or surrounding whitespace resolve to one id, and calling        *)
(* process_sub_entities again with the same batch inserts no row and       *)
(* returns the same mapping.                                               *)
C4_LookupUniqueness ==
    /\ \A t \in LookupTables : \A r1, r2 \in db[t] :
          /\ r1.name.pad = FALSE /\ r1.name.cs = "upper"
          /\ (r1.name.base = r2.name.base \/ r1.id = r2.id) => r1 = r2
    /\ \A E \in EntityTypes : \A s \in DOMAIN lookups_of(E) :
          LET sp == lookups_of(E)[s]
              values == ColumnValues(E, sp[1])
          IN \A o \in process_sub_entities(db[sp[2]], values) :
                /\ o.fault = ""
                /\ \A i, j \in DOMAIN values :
                      values[i].base = values[j].base
                      => o.map[clean_text(values[i])] = o.map[clean_text(values[j])]
                /\ \A r1, r2 \in o.table : r1.name.base = r2.name.base => r1 = r2
                /\ process_sub_entities(o.table, values)
                      = {[fault |-> "", table |-> o.table, map |-> o.map]}

(* Two runs over companies whose industries differ in case and padding     *)
(* only: one industry row serves both.                                     *)
C4_Witness ==
    /\ Len(hist) = 2
    /\ \E i, j \in DOMAIN files.companies :
          /\ files.companies[i].industry # files.companies[j].industry
          /\ files.companies[i].industry.base = files.companies[j].industry.base
          /\ Cardinality({r \in db.industries :
                            r.name.base = files.companies[i].industry.base}) = 1
          /\ Cardinality(db.companies) = 2

EntityOf(t) == CHOOSE E \in EntityTypes : table_of(E) = t

(* C5: a row enters a companies, contacts, opportunities or activities     *)
(* table only as the instance of a candidate validated in that step whose  *)
(* validate() returned with an empty error list; a candidate with any      *)
(* error, an unknown-column error included, adds no row.                   *)
C5_OnlyValidPersisted ==
    [][\A t \in EntityTables : \A row \in db'[t] \ db[t] :
          \E v \in validated' :
             /\ v.E = EntityOf(t)
             /\ v.m.self = row
             /\ v.m.raised = ""
             /\ v.m.validation_errors = <<>>]_vars

(* One chunk persisted a valid activity and reported, without persisting   *)
(* it, an activity whose only error is an unknown column.                  *)
C5_Witness ==
    /\ \E row \in db.activities : row.id = Id("a1")
    /\ \A row \in db.activities : row.id # Id("a2")
    /\ \E v \in validated :
          /\ v.E = "Activity" /\ v.data.id = Id("a2")
          /\ Len(v.m.validation_errors) = 1
          /\ v.m.validation_errors[1].text = "Unknown columns"
    /\ \E i \in DOMAIN validation_errors.activities :
          validation_errors.activities[i].record.id = Id("a2")

(* The step validated at least one candidate and rejected every one. *)
AllRejected(vs) ==
    vs # {} /\ \A v \in vs : v.m.raised = "" /\ v.m.validation_errors # <<>>

(* C6, as stated: a chunk in which every novel record fails validation     *)
(* leaves the whole store unchanged, every lookup table included.          *)
C6_RejectedChunkLeavesStore ==
    [][AllRejected(validated') => db' = db]_vars

(* C6, amended: such a chunk leaves the four entity tables unchanged; the  *)
(* lookup tables keep their rows and hold, afterwards, a row for every     *)
(* lookup name of the rejected records, created if it was not there.       *)
C6_RejectedChunkLeavesEntities ==
    [][AllRejected(validated') =>
          /\ \A t \in EntityTables : db'[t] = db[t]
          /\ \A t \in LookupTables : db[t] \subseteq db'[t]
          /\ \A v \in validated' : \A s \in DOMAIN lookups_of(v.E) :
                \E r \in db'[lookups_of(v.E)[s][2]] : r.id = v.data[lookups_of(v.E)[s][3]]]_vars

(* A rejected company left its industry behind: an industry row exists     *)
(* and no company does.                                                    *)
C6_Witness ==
    /\ AllRejected(validated)
    /\ \E v \in validated : v.E = "Company"
    /\ db.companies = {}
    /\ db.industries # {}
    /\ Len(validation_errors.companies) > 0

(* <<table, foreign-key column, table referred to>> of every ForeignKey. *)
ForeignKeys ==
    { <<"companies", "industry_id", "industries">>,
      <<"contacts", "status_id", "contact_statuses">>,
      <<"contacts", "company_id", "companies">>,
      <<"opportunities", "contact_id", "contacts">>,
      <<"opportunities", "company_id", "companies">>,
      <<"opportunities", "stage_id", "stages">>,
      <<"opportunities", "forecast_category_id", "forecast_categories">>,
      <<"opportunities", "product_id", "products">>,
      <<"activities", "contact_id", "contacts">>,
      <<"activities", "opportunity_id", "opportunities">> }

(* C7: in every committed store state, every foreign id a persisted row    *)
(* holds, unless it is null, is the id of a row of the table it refers to. *)
C7_ReferentialIntegrity ==
    \A fk \in ForeignKeys : \A row \in db[fk[1]] :
        row[fk[2]] # None => \E target \in db[fk[3]] : target.id = row[fk[2]]

(* A candidate of each entity type that is valid in every column. *)
ValidRef(E) ==
    CASE E = "Company" ->
            [id |-> Id("c1"), industry_id |-> IntV(1), name |-> Name("acme"),
             domain |-> Id("a.com"), size |-> SizeStr(<<"50", "-", "100">>),
             country |-> Name("usa"), created_date |-> DateStr(0, ""),
             is_customer |-> BoolV(FALSE), annual_revenue |-> IntV(1500000)]
      [] E = "Contact" ->
            [id |-> Id("t1"), status_id |-> IntV(1), company_id |-> Id("c1"),
             email |-> Id("ref@a.com"), first_name |-> Name("ann"),
             last_name |-> Name("lee"), title |-> Name("ceo"),
             phone |-> Str("+15551234567", FALSE, "raw"),
             created_date |-> DateStr(0, ""), last_modified |-> DateStr(0, "")]
      [] E = "Opportunity" ->
            [id |-> Id("o1"), name |-> Name("basic deal"), contact_id |-> Id("t1"),
             company_id |-> Id("c1"), stage_id |-> IntV(1),
             forecast_category_id |-> IntV(1), product_id |-> IntV(1),
             amount |-> IntV(25000), probability |-> IntV(20),
             created_date |-> DateStr(0, ""), close_date |-> DateStr(Far, ""),
             is_closed |-> BoolV(FALSE)]
      [] OTHER ->
            [contact_id |-> Id("t1"), opportunity_id |-> Id("o1"), id |-> Id("a1"),
             type |-> Name("call"), subject |-> Name("call with ann"),
             timestamp |-> Timestamp(0, ""), duration_minutes |-> IntV(30),
             outcome |-> Name("completed"), notes |-> Name("scope")]

(* The value the candidate gives column c (None when it gives none). *)
Given(data, c) == IF c \in DOMAIN data THEN data[c] ELSE None

(* Column c of the candidate is invalid by itself: a record valid in       *)
(* every other column is reported for column c when it holds this value.   *)
InvalidAlone(E, c, data, ctx) ==
    \E e \in Range(validate(E, [ValidRef(E) EXCEPT ![c] = Given(data, c)], ctx)
                      .validation_errors) : e.col = c

(* The errors of single fields, without the unknown-columns error. *)
FieldErrors(m) == SelectSeq(m.validation_errors, LAMBDA e : e.col # "")

(* C8: validate() checks every column of the record, and its error list    *)
(* holds exactly one error for each field that is invalid by itself; the   *)
(* only other error a list may hold is that of a last_modified before the  *)
(* created_date.                                                           *)
C8_AllErrorsCollected ==
    \A v \in validated :
        LET bad == {c \in Range(columns(v.E)) : InvalidAlone(v.E, c, v.data, v.ctx)}
            reported == {e.col : e \in Range(FieldErrors(v.m))}
        IN /\ v.m.checked = columns(v.E)
           /\ bad \subseteq reported
           /\ reported \ bad \subseteq {"last_modified"}
           /\ Len(FieldErrors(v.m)) = Cardinality(reported)

(* C9: validate() returns for every candidate: no exception leaves it. *)
C9_ValidateNeverRaises ==
    \A v \in validated : v.m.raised = ""

(* C10: for every non-nullable column the candidate leaves None, the error *)
(* list holds exactly one error for the column, "<column> cannot be        *)
(* null.", the validator of the column is not invoked, and every later    *)
(* column is checked.                                                      *)
C10_NullColumnsReported ==
    \A v \in validated : \A i \in DOMAIN columns(v.E) :
        LET c == columns(v.E)[i]
        IN (~nullable(v.E, c) /\ Given(v.data, c) = None)
           => /\ \E k \in DOMAIN v.m.validation_errors :
                    /\ v.m.validation_errors[k] = Err(c, "cannot be null.", None)
                    /\ \A j \in DOMAIN v.m.validation_errors :
                          v.m.validation_errors[j].col = c => j = k
              /\ c \notin Range(v.m.invoked)
              /\ \A j \in DOMAIN columns(v.E) :
                    j > i => columns(v.E)[j] \in Range(v.m.checked)

(* Every column of the candidate but c holds a value valid by itself. *)
OthersValid(E, c, data, ctx) ==
    \A o \in Range(columns(E)) \ {c} : ~InvalidAlone(E, o, data, ctx)

(* C11: a novel contact without a phone whose other fields are valid       *)
(* passes validation with no error and is persisted with a null phone.     *)
C11_NullPhonePersisted ==
    \A v \in validated :
        (v.E = "Contact" /\ Given(v.data, "phone") = None
         /\ DOMAIN v.data \subseteq Range(columns("Contact"))
         /\ OthersValid("Contact", "phone", v.data, v.ctx))
        => /\ v.m.raised = ""
           /\ v.m.validation_errors = <<>>
           /\ \E row \in db.contacts : row.id = v.data.id /\ row.phone = None

(* Both dates of the record parse and last_modified is the earlier one. *)
ModifiedBeforeCreated(data) ==
    /\ standardize_datetime(data.created_date).ok
    /\ standardize_datetime(data.last_modified).ok
    /\ standardize_datetime(data.last_modified).v.t
          < standardize_datetime(data.created_date).v.t

(* C12: every persisted contact has created_date <= last_modified, both    *)
(* not later than the clock; and a contact whose last_modified precedes    *)
(* its created_date is rejected with a validation error: validate()        *)
(* returns, the error list is not empty, and no row is persisted for it.   *)
C12_ContactDatesOrdered ==
    /\ \A row \in db.contacts :
          /\ row.created_date.k = "datetime" /\ row.last_modified.k = "datetime"
          /\ row.created_date.t <= row.last_modified.t
          /\ row.last_modified.t <= now
    /\ \A v \in validated :
          (v.E = "Contact" /\ ModifiedBeforeCreated(v.data))
          => /\ v.m.raised = ""
             /\ v.m.validation_errors # <<>>
             /\ \A row \in db.contacts : row.id # v.data.id

(* The records of the contacts file whose raw email is e. *)
SameEmail(e) == {i \in DOMAIN files.contacts : files.contacts[i].email = e}

(* Several records share the email e, their last_modified values differ    *)
(* pairwise and none of their ids is persisted.                            *)
RecencyGroup(e) ==
    /\ Cardinality(SameEmail(e)) >= 2
    /\ \A i, j \in SameEmail(e) :
          i # j => sort_key(files.contacts[i].last_modified)
                   # sort_key(files.contacts[j].last_modified)
    /\ \A i \in SameEmail(e) : files.contacts[i].id \notin Ids(db.contacts)

(* The most recently modified record of the group. *)
Newest(e) ==
    files.contacts[CHOOSE i \in SameEmail(e) :
        \A j \in SameEmail(e) : sort_key(files.contacts[j].last_modified)
                                <= sort_key(files.contacts[i].last_modified)]

(* Of the records with email e the step validated only the newest. *)
OnlyNewestProcessed(e) ==
    \A v \in validated' :
        v.data.email = e => /\ v.data.id = Newest(e).id
                            /\ v.data.last_modified = Newest(e).last_modified

(* The rows the step added for candidates with email e. *)
AddedFor(e) ==
    {row \in db'.contacts \ db.contacts :
        \E v \in validated' : v.data.email = e /\ v.m.self = row}

(* C13, as stated: of several unpersisted contacts with one email and      *)
(* different last_modified values only the most recently modified is       *)
(* processed, and the step persists exactly one contact for that email,    *)
(* with the id of that record.                                             *)
C13_NewestContactPersisted ==
    [][(pc = "contacts" /\ pc' # pc) =>
          \A e \in {files.contacts[i].email : i \in DOMAIN files.contacts} :
             RecencyGroup(e) =>
                /\ OnlyNewestProcessed(e)
                /\ Cardinality(AddedFor(e)) = 1
                /\ \A row \in AddedFor(e) : row.id = Newest(e).id]_vars

(* C13, amended: only the most recently modified record is processed, and  *)
(* the step persists at most one contact for that email; it persists one,  *)
(* the validated instance of that record, exactly when that record was     *)
(* validated without an error and the step ended without a fault.          *)
C13_NewestContactPersistedIfValid ==
    [][(pc = "contacts" /\ pc' # pc) =>
          \A e \in {files.contacts[i].email : i \in DOMAIN files.contacts} :
             RecencyGroup(e) =>
                /\ OnlyNewestProcessed(e)
                /\ Cardinality(AddedFor(e)) <= 1
                /\ \A row \in AddedFor(e) : row.id = Newest(e).id
                /\ AddedFor(e) # {}
                   <=> /\ pc' = "opportunities"
                       /\ \E v \in validated' :
                             /\ v.data.email = e
                             /\ v.m.raised = "" /\ v.m.validation_errors = <<>>]_vars

(* A run met two contacts with one email and persisted the newer one only. *)
C13_Witness ==
    /\ pc = "opportunities"
    /\ \E i, j \in DOMAIN files.contacts :
          /\ files.contacts[i].email = files.contacts[j].email
          /\ sort_key(files.contacts[i].last_modified)
                > sort_key(files.contacts[j].last_modified)
          /\ files.contacts[i].id # files.contacts[j].id
          /\ \E row \in db.contacts : row.id = files.contacts[i].id
          /\ \A row \in db.contacts : row.id # files.contacts[j].id
          /\ \A row \in db.contacts : row.email = strip(files.contacts[i].email)
                                      => row.id = files.contacts[i].id

(* The candidate was rejected with a validation error on its email. *)
EmailRejected(v) ==
    /\ v.m.validation_errors # <<>>
    /\ \E i \in DOMAIN v.m.validation_errors : v.m.validation_errors[i].col = "email"

(* C14: email uniqueness is enforced by validation and not by a store      *)
(* fault: a novel contact whose trimmed email is that of a persisted       *)
(* contact, or of another contact validated in the same batch, is rejected *)
(* with a validation error on email, the contacts step does not end with   *)
(* an IntegrityError, and no two persisted contacts share an email.        *)
C14_EmailUniquenessByValidation ==
    [][(pc = "contacts" /\ pc' # pc) =>
          /\ \A v \in validated' :
                strip(v.data.email) \in {r.email : r \in db.contacts}
                => EmailRejected(v)
          /\ \A v1, v2 \in validated' :
                (v1 # v2 /\ strip(v1.data.email) = strip(v2.data.email))
                => EmailRejected(v1) \/ EmailRejected(v2)
          /\ pc' = "idle" => hist'[Len(hist')].outcome # "IntegrityError"
          /\ \A r1, r2 \in db'.contacts : r1.email = r2.email => r1 = r2]_vars

(* The value reads as an integer: an int, an integral float, a digit string. *)
IsInteger(p) ==
    \/ p.k = "int"
    \/ p.k = "float" /\ ~p.frac
    \/ p.k = "str" /\ IsDigits(p.base)

IntegerOf(p) == IF p.k = "str" THEN IntOf(p.base) ELSE p.n

(* The errors the validation recorded for column c. *)
ErrorsOn(m, c) ==
    {m.validation_errors[i] : i \in {j \in DOMAIN m.validation_errors :
                                        m.validation_errors[j].col = c}}

(* C15: a probability handed to its validator is accepted if and only if   *)
(* it is an integer p with 0 <= p <= 100; an integer out of the range is   *)
(* rejected with "must be between 0 and 100." for p, and the value stored  *)
(* for an accepted probability is that integer.                            *)
C15_ProbabilityIntegerInRange ==
    \A v \in validated :
        (v.E = "Opportunity" /\ v.data.probability # None)
        => LET p == v.data.probability
               inrange == IsInteger(p) /\ 0 <= IntegerOf(p) /\ IntegerOf(p) <= 100
           IN /\ v.m.raised = ""
              /\ ErrorsOn(v.m, "probability") = {} <=> inrange
              /\ inrange => v.m.self.probability = IntV(IntegerOf(p))
              /\ (IsInteger(p) /\ ~inrange)
                 => ErrorsOn(v.m, "probability")
                       = {Err("probability", "must be between 0 and 100.",
                              IntV(IntegerOf(p)))}

(* The size is a bare integer, "<low>-<high>" with low <= high, or "<n>+". *)
WellFormedSize(toks) ==
    \/ Len(toks) = 1 /\ IsDigits(toks[1])
    \/ Len(toks) = 2 /\ IsDigits(toks[1]) /\ toks[2] = "+"
    \/ /\ Len(toks) = 3 /\ IsDigits(toks[1]) /\ toks[2] = "-" /\ IsDigits(toks[3])
       /\ IntOf(toks[1]) <= IntOf(toks[3])

(* C16: a company size is accepted if and only if it is a bare integer, a  *)
(* range "<low>-<high>" with low <= high, or "<n>+"; every other string    *)
(* is rejected with an error on size.                                      *)
C16_SizeFormats ==
    \A v \in validated :
        (v.E = "Company" /\ v.data.size.k = "sizestr")
        => /\ v.m.raised = ""
           /\ ErrorsOn(v.m, "size") = {} <=> WellFormedSize(v.data.size.toks)
           /\ WellFormedSize(v.data.size.toks) => v.m.self.size = v.data.size

(* No row of the candidate's table carries its id. *)
NotPersisted(v) == \A row \in db[table_of(v.E)] : row.id # v.data.id

Rejections(errs) ==
    Len(errs.companies) + Len(errs.contacts) + Len(errs.opportunities)
       + Len(errs.activities)

(* C18: a run that ends without a store fault ends successfully; it writes *)
(* exactly one error artifact if some record was rejected during that run  *)
(* and none if no record was rejected during that run.                     *)
C18_OneArtifactPerRunWithRejections ==
    [][(Len(hist') = Len(hist) + 1 /\ hist'[Len(hist')].outcome # "IntegrityError") =>
          LET before == IF hist = <<>> THEN 0 ELSE Rejections(hist[Len(hist)].errors)
              after == Rejections(hist'[Len(hist')].errors)
          IN /\ hist'[Len(hist')].outcome = "ok"
             /\ artifacts' = artifacts + (IF after > before THEN 1 ELSE 0)]_vars

(* rec is the input record r with each lookup name column removed and the  *)
(* id of the lookup row of that (cleaned) name in its place, every other   *)
(* field as the input holds it.                                            *)
SubstitutedFrom(E, rec, r, d) ==
    LET sp == lookups_of(E)
        names == {sp[i][1] : i \in DOMAIN sp}
        fks == {sp[i][3] : i \in DOMAIN sp}
    IN /\ DOMAIN rec = (DOMAIN r \ names) \cup fks
       /\ \A c \in DOMAIN r \ names : rec[c] = r[c]
       /\ \A i \in DOMAIN sp :
             \E row \in d[sp[i][2]] :
                row.name = upper(strip(r[sp[i][1]])) /\ rec[sp[i][3]] = row.id

(* C19: every entry a step appends to an error collection is {record,      *)
(* errors}: record is a record of the input file with its original,        *)
(* un-normalized values and its lookup names replaced by the resolved ids, *)
(* and errors is the non-empty error list of the validation of that        *)
(* record.                                                                 *)
C19_ErrorEntryHoldsOriginalRecord ==
    [][\A t \in EntityTables :
          \A i \in (Len(validation_errors[t]) + 1)..Len(validation_errors'[t]) :
             LET entry == validation_errors'[t][i]
             IN /\ DOMAIN entry = {"record", "errors"}
                /\ entry.errors # <<>>
                /\ \E n \in DOMAIN files[t] :
                      SubstitutedFrom(EntityOf(t), entry.record, files[t][n], db')
                /\ \E v \in validated' :
                      /\ v.E = EntityOf(t) /\ v.data = entry.record
                      /\ v.m.validation_errors = entry.errors]_vars

(* A rejected company is reported with its industry replaced by the id and *)
(* its name as padded as the input holds it.                               *)
C19_Witness ==
    \E i \in DOMAIN validation_errors.companies :
        LET entry == validation_errors.companies[i]
        IN /\ "industry_id" \in DOMAIN entry.record
           /\ "industry" \notin DOMAIN entry.record
           /\ entry.record.name.pad
           /\ entry.errors # <<>>
           /\ \E n \in DOMAIN files.companies :
                 files.companies[n].id = entry.record.id
                 /\ files.companies[n].name = entry.record.name

(* The step is a chunk of a process_* routine. *)
ProcessStep == <<pc, chunk, hist>>' # <<pc, chunk, hist>>

(* C20: no step changes or deletes a persisted row, and a record of the    *)
(* input whose id is persisted is skipped by the step: it is not           *)
(* validated and no error entry is appended for it.                        *)
C20_CreateOnly ==
    [][/\ \A t \in EntityTables \cup LookupTables :
             /\ db[t] \subseteq db'[t]
             /\ \A r1, r2 \in db'[t] : r1.id = r2.id => r1 = r2
       /\ ProcessStep =>
             /\ \A v \in validated' : v.data.id \notin Ids(db[table_of(v.E)])
             /\ \A t \in EntityTables :
                   \A i \in (Len(validation_errors[t]) + 1)..Len(validation_errors'[t]) :
                      validation_errors'[t][i].record.id \notin Ids(db[t])]_vars

(* A second run met a record with the id of a persisted company and other  *)
(* field values: the row is as the first run left it and the run reported  *)
(* nothing for that id.                                                    *)
C20_Witness ==
    /\ Len(hist) = 2
    /\ \E row \in hist[1].db.companies :
          /\ row \in hist[2].db.companies
          /\ \E n \in DOMAIN hist[2].input.companies :
                /\ hist[2].input.companies[n].id = row.id
                /\ hist[2].input.companies[n].name.base # row.name.base
                /\ \A m \in DOMAIN hist[1].input.companies :
                      hist[1].input.companies[m] # hist[2].input.companies[n]
          /\ \A i \in DOMAIN hist[2].errors.companies :
                hist[2].errors.companies[i].record.id # row.id
          /\ \A r \in hist[2].db.companies : r.id = row.id => r = row

(* The batches a process_* routine reads from the input, in order. *)
batches(E, input) ==
    CASE E = "Contact" -> <<drop_duplicates(sort_values(input.contacts), {})>>
      [] E = "Activity" -> <<input.activities>>
      [] OTHER -> [i \in 1..(IF Len(input[table_of(E)]) = 0 THEN 1
                             ELSE (Len(input[table_of(E)]) + chunk_size - 1)
                                     \div chunk_size)
                     |-> chunk_of(input[table_of(E)], i)]

RECURSIVE process(_, _, _, _)
(* The process_* routines Es over their batches bs on a store that does    *)
(* not fail by itself, with the clock at t: the possible [outcome, db].    *)
process(Es, bs, d, t) ==
    IF Es = <<>> THEN {[outcome |-> "ok", db |-> d]}
    ELSE IF bs = <<>> THEN process(Tail(Es), <<>>, d, t)
    ELSE UNION {IF o.fault = "OperationalError" THEN {}
                ELSE IF o.fault # "" THEN {[outcome |-> o.fault, db |-> o.db]}
                ELSE process(Es, Tail(bs), o.db, t)
                : o \in load_chunk(Head(Es), Head(bs), d, t)}

RECURSIVE run(_, _, _, _)
(* Pipeline.run over the input from the store d, uninterrupted, as far as  *)
(* the end of process_activities.                                          *)
run(Es, input, d, t) ==
    IF Es = <<>> THEN {[outcome |-> "ok", db |-> d]}
    ELSE UNION {IF r.outcome # "ok" THEN {r} ELSE run(Tail(Es), input, r.db, t)
                : r \in process(<<Head(Es)>>, batches(Head(Es), input), d, t)}

RunOrder == <<"Company", "Contact", "Opportunity", "Activity">>

EmptyStore == [t \in LookupTables \cup EntityTables |-> {}]

(* The names a lookup table holds. *)
LookupNames(d) == [t \in LookupTables |-> {r.name : r \in d[t]}]

(* d is what an uninterrupted run over the input at a clock in t0..t1 can  *)
(* leave: the same primary rows and the same lookup names.                 *)
AsUninterrupted(d, input, t0, t1) ==
    \E t \in t0..t1 : \E r \in run(RunOrder, input, EmptyStore, t) :
        /\ r.outcome = "ok"
        /\ \A e \in EntityTables : r.db[e] = d[e]
        /\ LookupNames(r.db) = LookupNames(d)

(* No table holds two rows with one id, no lookup table two with one name. *)
NoDuplicates(d) ==
    /\ \A t \in LookupTables \cup EntityTables :
          \A r1, r2 \in d[t] : r1.id = r2.id => r1 = r2
    /\ \A t \in LookupTables : \A r1, r2 \in d[t] : r1.name = r2.name => r1 = r2

(* The first run was ended by a failure of the store, the second run, over *)
(* the same input, is complete.                                            *)
RetriedAfterFault ==
    /\ Len(hist) = 2
    /\ hist[1].outcome = "OperationalError"
    /\ Finished(2) /\ SameInput(2)

(* C21, as stated: after a run that a store fault aborted, its commits     *)
(* remain, and a complete run over the same input ends with the primary    *)
(* rows and lookup names of one uninterrupted run over that input in place *)
(* of the aborted one, without a duplicate row.                            *)
C21_RetryAsUninterrupted ==
    RetriedAfterFault =>
        /\ \A t \in LookupTables \cup EntityTables : hist[1].db[t] \subseteq hist[2].db[t]
        /\ NoDuplicates(hist[2].db)
        /\ AsUninterrupted(hist[2].db, hist[2].input, hist[1].start, hist[1].end)

(* C21, amended: the same, provided no created_date or last_modified of    *)
(* the input comes due between the start of the aborted run and the end of *)
(* the retry.                                                              *)
C21_RetryAsUninterruptedUnlessDateCameDue ==
    (RetriedAfterFault /\ ~ComesDue(hist[2].input, hist[1].start, hist[2].end)) =>
        /\ \A t \in LookupTables \cup EntityTables : hist[1].db[t] \subseteq hist[2].db[t]
        /\ NoDuplicates(hist[2].db)
        /\ AsUninterrupted(hist[2].db, hist[2].input, hist[1].start, hist[2].end)

(* A run failed after it had committed a company and a lookup row; the     *)
(* retry over the same input persisted more rows.                          *)
C21_Witness ==
    /\ RetriedAfterFault
    /\ ~ComesDue(hist[2].input, hist[1].start, hist[2].end)
    /\ hist[1].db.companies # {}
    /\ hist[1].db.industries # {}
    /\ hist[2].db # hist[1].db
    /\ \E t \in EntityTables : hist[1].db[t] # hist[2].db[t]

(* The fields of the record that are no column of the entity. *)
UnknownColumns(E, data) == DOMAIN data \ Range(columns(E))

(* The record without them. *)
KnownPart(E, data) == [c \in DOMAIN data \cap Range(columns(E)) |-> data[c]]

(* C22: a candidate with a field that is no column is built without that   *)
(* field; its error list is "Unknown columns: <names>" followed by exactly *)
(* the errors of the same record without the field, every column being     *)
(* checked as for that record; it raises nothing of its own, it is         *)
(* reported in the error collection of the step and it is not persisted.   *)
C22_UnknownColumnsReported ==
    [][ProcessStep =>
          \A v \in validated' :
             UnknownColumns(v.E, v.data) # {} =>
                LET plain == validate(v.E, KnownPart(v.E, v.data), v.ctx)
                    t == table_of(v.E)
                IN /\ DOMAIN v.m.self = Range(columns(v.E))
                   /\ v.m.self = plain.self
                   /\ v.m.validation_errors
                         = <<Err("", "Unknown columns", UnknownColumns(v.E, v.data))>>
                              \o plain.validation_errors
                   /\ v.m.checked = plain.checked
                   /\ v.m.raised = plain.raised
                   /\ v.m.raised = ""
                      => /\ \E i \in (Len(validation_errors[t]) + 1)
                                        ..Len(validation_errors'[t]) :
                               /\ validation_errors'[t][i].record = v.data
                               /\ validation_errors'[t][i].errors = v.m.validation_errors
                         /\ \A row \in db'[t] : row.id # v.data.id]_vars

(* One step reported an activity with an unknown column and a negative     *)
(* duration, both errors in that order, and persisted the valid activity   *)
(* of the same file.                                                       *)
C22_Witness ==
    /\ \E v \in validated :
          /\ v.E = "Activity" /\ UnknownColumns("Activity", v.data) # {}
          /\ Len(v.m.validation_errors) = 2
          /\ v.m.validation_errors[1].text = "Unknown columns"
          /\ v.m.validation_errors[2].col = "duration_minutes"
          /\ \A row \in db.activities : row.id # v.data.id
          /\ \E i \in DOMAIN validation_errors.activities :
                validation_errors.activities[i].record = v.data
    /\ \E v \in validated :
          /\ v.E = "Activity" /\ v.m.validation_errors = <<>>
          /\ \E row \in db.activities : row = v.m.self

(* The place of a routine in run(); idle is before and after all. *)
Rank(p) == CASE p = "companies" -> 1 [] p = "contacts" -> 2
             [] p = "opportunities" -> 3 [] p = "activities" -> 4 [] OTHER -> 0

(* The routine a process step belongs to. *)
StepRank == IF pc = "idle" THEN 1 ELSE Rank(pc)

(* C23: within a run the routines follow each other in the order Company,  *)
(* Contact, Opportunity, Activity, none is entered again; a step validates *)
(* candidates and inserts rows of its own entity type only, so the rows of *)
(* an earlier type are all committed before the first candidate of a later *)
(* type is validated; and every lookup id a validated candidate carries is *)
(* the id of a lookup row that is committed when the step ends, whether    *)
(* the step commits its primary rows or not.                               *)
C23_StrictOrder ==
    [][ProcessStep =>
          /\ pc' = "idle" \/ Rank(pc') \in {StepRank, StepRank + 1}
          /\ \A v \in validated' : Rank(table_of(v.E)) = StepRank
          /\ \A t \in EntityTables : db'[t] # db[t] => Rank(t) = StepRank
          /\ \A v \in validated' : \A i \in DOMAIN lookups_of(v.E) :
                \E row \in db'[lookups_of(v.E)[i][2]] :
                   row.id = v.data[lookups_of(v.E)[i][3]]]_vars

(* An opportunity was validated and persisted after a company and a        *)
(* contact of the same run were, its three lookup rows committed.          *)
C23_Witness ==
    /\ pc = "activities"
    /\ db.companies # {} /\ db.contacts # {} /\ db.opportunities # {}
    /\ hist = <<>>
    /\ \E v \in validated :
          /\ v.E = "Opportunity"
          /\ \E row \in db.opportunities : row = v.m.self
          /\ \E row \in db.stages : row.id = v.data.stage_id
          /\ \E row \in db.forecast_categories : row.id = v.data.forecast_category_id
          /\ \E row \in db.products : row.id = v.data.product_id

(* The ids of the batch b that no row of the table t carries. *)
NovelIds(b, t) == {b[i].id : i \in DOMAIN b} \ Ids(db[t])

(* The last record of the batch b with the id. *)
LastWithId(b, id) ==
    b[CHOOSE i \in DOMAIN b : b[i].id = id /\ \A j \in DOMAIN b : b[j].id = id => j <= i]

(* The step over the batch b of the table t validated candidates with      *)
(* novel ids only, one per id, built from the last record with that id,    *)
(* all novel ids unless a validation raised, and inserted rows with        *)
(* pairwise different ids that were not persisted.                         *)
NovelOnly(b, t) ==
    /\ {v.data.id : v \in validated'} \subseteq NovelIds(b, t)
    /\ \A v, w \in validated' : v.data.id = w.data.id => v = w
    /\ \A v \in validated' :
          \A c \in DOMAIN v.data \cap DOMAIN LastWithId(b, v.data.id) :
             v.data[c] = LastWithId(b, v.data.id)[c]
    /\ (validated' # {} /\ \A v \in validated' : v.m.raised = "")
       => {v.data.id : v \in validated'} = NovelIds(b, t)
    /\ \A r1, r2 \in db'[t] \ db[t] : r1.id = r2.id => r1 = r2
    /\ \A r \in db'[t] \ db[t] : r.id \notin Ids(db[t])

ColumnOf(b, col) == [i \in DOMAIN b |-> b[i][col]]

(* o, a result of process_sub_entities on the values, maps the normalized  *)
(* form of every value to the id of the committed row of that name.        *)
TotalMapping(o, values) ==
    /\ o.fault = ""
    /\ \A i \in DOMAIN values :
          /\ upper(strip(values[i])) \in DOMAIN o.map
          /\ \E row \in o.table :
                row.name = upper(strip(values[i])) /\ row.id = o.map[upper(strip(values[i]))]

(* C25: for the batch the next step reads and each of its lookup columns   *)
(* that holds no null, every result of process_sub_entities on the store   *)
(* maps the normalized form of every value of the column, found or just    *)
(* created, to the id of its row, and a further call on the resulting      *)
(* table returns the same mapping and creates nothing.                     *)
C25_LookupMappingTotal ==
    \A i \in DOMAIN lookups_of(Routine) :
        LET sp == lookups_of(Routine)[i]
            values == ColumnOf(Batch, sp[1])
        IN (\A n \in DOMAIN values : values[n] # None) =>
              \A o \in process_sub_entities(db[sp[2]], values) :
                 /\ TotalMapping(o, values)
                 /\ \A o2 \in process_sub_entities(o.table, values) :
                       o2.fault = "" /\ o2.map = o.map /\ o2.table = o.table

(* The companies read next name an industry the store holds and one it     *)
(* does not hold yet.                                                      *)
C25_Witness ==
    /\ pc = "idle"
    /\ \E i, j \in DOMAIN Batch :
          /\ upper(strip(Batch[i].industry)) \in {r.name : r \in db.industries}
          /\ upper(strip(Batch[j].industry)) \notin {r.name : r \in db.industries}

(* The step completed its chunk: no validation raised and the store        *)
(* refused nothing (a run that ended did so in log_errors or after it).    *)
ChunkCompleted ==
    /\ ProcessStep
    /\ \A v \in validated' : v.m.raised = ""
    /\ hist' = hist \/ hist'[Len(hist')].outcome \in {"ok", "TypeError"}

(* The entries the step appended to the error collection of the table t. *)
EntriesAdded(t) ==
    SubSeq(validation_errors'[t], Len(validation_errors[t]) + 1, Len(validation_errors'[t]))

(* Every novel id of the batch b is the id of an inserted row and of no    *)
(* added entry, or of exactly one added entry and of no inserted row, and  *)
(* the inserted rows and added entries together count the novel ids.       *)
LossFree(b, t, added) ==
    /\ \A id \in NovelIds(b, t) :
          LET persisted == \E r \in db'[t] \ db[t] : r.id = id
              entries == Cardinality({i \in DOMAIN added : added[i].record.id = id})
          IN \/ persisted /\ entries = 0
             \/ ~persisted /\ entries = 1
    /\ Cardinality(db'[t] \ db[t]) + Len(added) = Cardinality(NovelIds(b, t))

StrictlyNewest(e) ==
    /\ Cardinality(SameEmail(e)) >= 2
    /\ \E i \in SameEmail(e) : \A j \in SameEmail(e) \ {i} :
          sort_key(files.contacts[j].last_modified) < sort_key(files.contacts[i].last_modified)

(* The step validated the newest record with email e and did not accept it. *)
NewestFailed(e) ==
    \E v \in validated' :
        /\ v.data.email = e /\ v.data.id = Newest(e).id
        /\ v.m.raised # "" \/ v.m.validation_errors # <<>>

(* C27: when the most recently modified contact of the file with an email  *)
(* value fails validation or carries a persisted id, the contacts step     *)
(* validates no other record with that email value and persists no contact *)
(* for it; when the id is persisted it validates no record with that email *)
(* value at all.                                                           *)
C27_DedupBeforeValidation ==
    [][(pc = "contacts" /\ pc' # pc) =>
          \A e \in {files.contacts[i].email : i \in DOMAIN files.contacts} :
             (StrictlyNewest(e) /\ (NewestFailed(e) \/ Newest(e).id \in Ids(db.contacts)))
             => /\ OnlyNewestProcessed(e)
                /\ AddedFor(e) = {}
                /\ Newest(e).id \in Ids(db.contacts)
                   => \A v \in validated' : v.data.email # e]_vars

(* The first run read contact0, valid and novel, and a record with its     *)
(* email modified later that was rejected: no contact was persisted and    *)
(* the only entry reports the later record.                                *)
C27_Witness ==
    /\ hist = <<>> /\ pc = "opportunities"
    /\ Len(files.contacts) = 2
    /\ \E i, j \in DOMAIN files.contacts :
          /\ files.contacts[j] = contact0
          /\ files.contacts[i].email = contact0.email
          /\ sort_key(files.contacts[i].last_modified) > sort_key(contact0.last_modified)
          /\ Len(validation_errors.contacts) = 1
          /\ validation_errors.contacts[1].record.id = files.contacts[i].id
    /\ db.contacts = {}

(* The step ended the run with a fault of the store at the bulk insert:    *)
(* the candidates were validated, none raised, and the statement did.      *)
BulkInsertRaised ==
    /\ ProcessStep
    /\ validated' # {}
    /\ \A v \in validated' : v.m.raised = ""
    /\ hist' # hist
    /\ hist'[Len(hist')].outcome \in {"IntegrityError", "OperationalError"}

(* The lookup rows the store held stay, and every non-null lookup name of  *)
(* the batch b of the routine E has its committed row.                     *)
LookupsKept(E, b) ==
    /\ \A t \in LookupTables : db[t] \subseteq db'[t]
    /\ \A i \in DOMAIN lookups_of(E) : \A n \in DOMAIN b :
          b[n][lookups_of(E)[i][1]] # None
          => \E row \in db'[lookups_of(E)[i][2]] :
                row.name = clean_text(b[n][lookups_of(E)[i][1]])

(* C28: when the bulk insert of a chunk raises, no entity table changes    *)
(* (none of the staged rows is persisted and the rows of earlier chunks    *)
(* stay), the lookup rows committed before and during the chunk stay, the  *)
(* run ends at once with that exception, before any later routine and      *)
(* without an error artifact.                                              *)
C28_ChunkAtomicUnderStoreFault ==
    [][BulkInsertRaised =>
          /\ \A t \in EntityTables : db'[t] = db[t]
          /\ LookupsKept(Routine, Batch)
          /\ pc' = "idle" /\ chunk' = 1
          /\ Len(hist') = Len(hist) + 1
          /\ hist'[Len(hist')].db = db'
          /\ artifacts' = artifacts]_vars

(* The second chunk of companies staged a novel company with the domain of *)
(* a persisted one: the run ended with IntegrityError, the two rows of the *)
(* first chunk and the industries stay, no artifact was written.           *)
C28_Witness ==
    /\ pc = "idle" /\ Len(hist) = 1
    /\ hist[1].outcome = "IntegrityError"
    /\ Len(files.companies) = 3
    /\ Cardinality(db.companies) = 2
    /\ files.companies[3].id \notin Ids(db.companies)
    /\ \E row \in db.companies : row.domain = strip(files.companies[3].domain)
    /\ \E row \in db.industries : row.name = clean_text(files.companies[3].industry)
    /\ artifacts = 0

====
